---------------------------- MODULE Spec2Model ----------------------------
(***************************************************************************)
(* Controle de Contas (src/app.py): accounts payable kept in one CSV file  *)
(* and edited through a Streamlit page.  Every user interaction re-runs    *)
(* the script from the top: the table is loaded from the file, the derived *)
(* columns are computed, the table is sorted, and then the handler of the  *)
(* widget that was used mutates the table, saves it and asks for a rerun.  *)
(*                                                                         *)
(* A table (DataFrame) is [colunas |-> sequence of column names,           *)
(* linhas |-> sequence of rows]; a row is a record with one field per      *)
(* column.  Row labels (the pandas index) are unique within one run and    *)
(* are only used by df.update to align the edited rows with df, so a row   *)
(* is addressed here by its position.                                      *)
(***************************************************************************)
EXTENDS Integers, Sequences, FiniteSets, TLC

(* ------------------------------ bounds -------------------------------- *)
MaxLinhas == 2      \* rows kept in the table at once
MaxCriacoes == 3    \* records created in one behaviour
MaxHoje == 1        \* days that pass (today runs over 0..MaxHoje)
MaxValor == 1       \* amounts are 0..MaxValor

(* ------------------------------ values -------------------------------- *)
\* A missing value of a text column (float NaN / None in pandas).
NaN == "<NaN>"

\* Values of the vencimento column.  k tells what kind of object the cell
\* holds, d the day it denotes (0 when it denotes none).
Date(d) == [k |-> "date", d |-> d]        \* datetime.date, from st.date_input
Ts(d) == [k |-> "Timestamp", d |-> d]     \* pandas Timestamp
Txt(d) == [k |-> "texto", d |-> d]        \* ISO date text, a cell of the file
NaT == [k |-> "NaT", d |-> 0]             \* pandas missing datetime
Vazio == [k |-> "vazio", d |-> 0]         \* empty cell / float NaN
Ruim == [k |-> "ruim", d |-> 0]           \* text that is no date

\* A missing number (dias of an undated row) is <<>>, a number n is <<n>>.
None == <<>>
Num(n) == <<n>>

COLUNAS ==
    <<"id", "fornecedor", "descricao", "tipo_documento", "valor",
      "vencimento", "status">>

Dias == 0..MaxHoje
Datas == 0..MaxHoje
Valores == 0..MaxValor
Ids == 1..MaxCriacoes

\* What the user may type in the Fornecedor field: nothing, blanks, a name,
\* and a name that spells one of read_csv's default missing-value markers.
Fornecedores == {"", " ", "Acme", "NA"}
Descricoes == {""}
TiposDocumento == {"Boleto"}

(* ----------------------------- helpers -------------------------------- *)
Range(s) == {s[i] : i \in DOMAIN s}

RECURSIVE SelectRows(_, _)
\* df[mask]: the rows whose position is in keep, in order.
SelectRows(linhas, keep) ==
    IF linhas = <<>> THEN <<>>
    ELSE LET n == Len(linhas)
             ini == SelectRows(SubSeq(linhas, 1, n - 1), keep)
         IN  IF n \in keep THEN Append(ini, linhas[n]) ELSE ini

TabelaVazia == [colunas |-> COLUNAS, linhas |-> <<>>]

\* DataFrame.empty
Empty(t) == Len(t.linhas) = 0

IdsDe(linhas) == {linhas[i].id : i \in DOMAIN linhas}

RECURSIVE MaxDe(_)
MaxDe(S) ==
    IF S = {} THEN 0
    ELSE LET x == CHOOSE y \in S : TRUE
             m == MaxDe(S \ {x})
         IN  IF x > m THEN x ELSE m


(* --------------------- conversions done by pandas --------------------- *)
ColunasTexto ==
    {"fornecedor", "descricao", "tipo_documento", "status", "status_atual"}

\* The texts read_csv takes for a missing value (keep_default_na), among the
\* texts of the model: the empty field and the marker NA.
NA_VALUES == {"", "NA"}

\* pd.isna of a vencimento cell.
IsNaData(v) == v.k \in {"NaT", "vazio"}

\* pd.to_datetime(x, errors="coerce") of one cell: dates, timestamps and ISO
\* text become a Timestamp, everything else becomes NaT.
ToDatetime(v) ==
    IF v.k \in {"date", "Timestamp", "texto"} THEN Ts(v.d) ELSE NaT

\* DataFrame.to_csv of one cell: a missing value is written as an empty
\* field, a Timestamp as ISO text, text and numbers as they are.
EscreverCelula(c, v) ==
    IF c = "vencimento"
    THEN IF v.k = "Timestamp" THEN Txt(v.d) ELSE Vazio
    ELSE IF c \in ColunasTexto
         THEN IF v = NaN THEN "" ELSE v
         ELSE v

\* pd.read_csv of one cell: a field holding one of NA_VALUES is missing,
\* any other text is kept (blanks included), numbers are parsed back.
LerCelula(c, v) ==
    IF c = "vencimento"
    THEN v
    ELSE IF c \in ColunasTexto
         THEN IF v \in NA_VALUES THEN NaN ELSE v
         ELSE v

ToCsv(t) ==
    [colunas |-> t.colunas,
     linhas |-> [i \in DOMAIN t.linhas |->
                    [c \in DOMAIN t.linhas[i] |->
                        EscreverCelula(c, t.linhas[i][c])]]]

ReadCsv(a) ==
    [colunas |-> a.colunas,
     linhas |-> [i \in DOMAIN a.linhas |->
                    [c \in DOMAIN a.linhas[i] |->
                        LerCelula(c, a.linhas[i][c])]]]

\* df["vencimento"] = pd.to_datetime(df["vencimento"], errors="coerce")
NormalizarVencimento(t) ==
    [t EXCEPT !.linhas =
        [i \in DOMAIN t.linhas |->
            [t.linhas[i] EXCEPT !.vencimento = ToDatetime(@)]]]

(* ------------------------------ FUNCOES ------------------------------- *)
\* The file ARQUIVO: absent, or a header and rows of cells.
ArquivoAusente == [existe |-> FALSE, colunas |-> <<>>, linhas |-> <<>>]

Gravado(t) == [existe |-> TRUE, colunas |-> t.colunas, linhas |-> t.linhas]

\* carregar_dados: the table it returns.
carregar_dados(arq) ==
    IF ~arq.existe
    THEN TabelaVazia
    ELSE LET lido == ReadCsv(arq)
         IN  IF Empty(lido) THEN TabelaVazia ELSE NormalizarVencimento(lido)

\* carregar_dados: the file it leaves (created with the header on first run).
ArquivoAposCarregar(arq) ==
    IF ~arq.existe THEN Gravado(ToCsv(TabelaVazia)) ELSE arq

\* Mutant of Strip: the text taken as it is, blanks counted as a name.
StripNada(s) == s

\* str(x).strip() != "" for the texts of the model.
Strip(s) == IF s = " " THEN "" ELSE s

remover_linhas_vazias(t) ==
    [t EXCEPT !.linhas =
        SelectRows(t.linhas,
            {i \in DOMAIN t.linhas :
                /\ t.linhas[i].fornecedor # NaN
                /\ Strip(t.linhas[i].fornecedor) # ""})]

\* salvar_dados: the file it writes.
salvar_dados(t) ==
    Gravado(ToCsv(NormalizarVencimento(remover_linhas_vazias(t))))

calcular_dias(vencimento, h) ==
    IF IsNaData(vencimento) THEN None ELSE Num(vencimento.d - h)

\* Mutant of definir_status_atual: a row due today counted as overdue.
StatusVencidaNoDia(row, h) ==
    IF row.status = "Paga"
    THEN "Paga"
    ELSE LET dias == calcular_dias(row.vencimento, h)
         IN  IF dias = None THEN "Sem data"
             ELSE IF dias[1] <= 0 THEN "Vencida"
             ELSE "A vencer"

definir_status_atual(row, h) ==
    IF row.status = "Paga"
    THEN "Paga"
    ELSE LET dias == calcular_dias(row.vencimento, h)
         IN  IF dias = None THEN "Sem data"
             ELSE IF dias[1] < 0 THEN "Vencida"
             ELSE "A vencer"

(* -------------------------------- APP --------------------------------- *)
\* Order of df.sort_values("vencimento"): ascending, missing dates last.
Antes(a, b) ==
    /\ ~IsNaData(a.vencimento)
    /\ IsNaData(b.vencimento) \/ a.vencimento.d < b.vencimento.d

RECURSIVE InsertSorted(_, _)
\* r put after the rows that do not come after it: rows of the same date
\* keep the order they had.
InsertSorted(linhas, r) ==
    IF linhas = <<>> THEN <<r>>
    ELSE IF Antes(r, linhas[Len(linhas)])
         THEN Append(InsertSorted(SubSeq(linhas, 1, Len(linhas) - 1), r),
                     linhas[Len(linhas)])
         ELSE Append(linhas, r)

RECURSIVE SortValues(_)
SortValues(linhas) ==
    IF linhas = <<>> THEN <<>>
    ELSE InsertSorted(SortValues(SubSeq(linhas, 1, Len(linhas) - 1)),
                      linhas[Len(linhas)])

\* A column assigned to a table: appended when the table has none so named.
ComColuna(colunas, c) ==
    IF c \in Range(colunas) THEN colunas ELSE Append(colunas, c)

\* STATUS DINAMICO: status_atual and dias of every row, then the sort.
StatusDinamico(t, h) ==
    IF Empty(t) THEN t
    ELSE [colunas |-> ComColuna(ComColuna(t.colunas, "status_atual"), "dias"),
          linhas |-> SortValues(
              [i \in DOMAIN t.linhas |->
                  [status_atual |-> definir_status_atual(t.linhas[i], h),
                   dias |-> calcular_dias(t.linhas[i].vencimento, h)]
                  @@ t.linhas[i]])]

RECURSIVE SomaValor(_)
\* Series.sum() of the valor column of the rows.
SomaValor(linhas) ==
    IF linhas = <<>> THEN 0
    ELSE SomaValor(SubSeq(linhas, 1, Len(linhas) - 1))
         + linhas[Len(linhas)].valor

Com(linhas, coluna, valor) ==
    SelectRows(linhas, {i \in DOMAIN linhas : linhas[i][coluna] = valor})

\* Mutant of TotalAPagar: the rows picked by their derived status, so that
\* overdue and undated rows are left out.
TotalSoAVencer(t) ==
    IF Empty(t) THEN 0 ELSE SomaValor(Com(t.linhas, "status_atual", "A vencer"))

\* TOTAL A PAGAR
TotalAPagar(t) ==
    IF Empty(t) THEN 0 ELSE SomaValor(Com(t.linhas, "status", "Pendente"))

\* What one run of the script shows before any handler acts.
Carga(arq, h) == StatusDinamico(carregar_dados(arq), h)

(* ------------------------------- state -------------------------------- *)
VARIABLES
    arquivo,        \* the file database/contas.csv
    df,             \* the table of the last run of the script
    total_a_pagar,  \* the metric of the last run
    hoje,           \* datetime.today().date() of the last run
    msg,            \* the notice the last run's handler gave, in plain
                    \* letters ("" when none)
    submetido,      \* what the user did to start the last run
    criados         \* the ids handed out so far, in order (history)

vars == <<arquivo, df, total_a_pagar, hoje, msg, submetido, criados>>

Entrada(botao, fornecedor, id, coluna) ==
    [botao |-> botao, fornecedor |-> fornecedor, id |-> id, coluna |-> coluna]

Nenhuma == Entrada("", "", 0, "")

Init ==
    /\ arquivo = ArquivoAusente
    /\ df = TabelaVazia
    /\ total_a_pagar = 0
    /\ hoje = 0
    /\ msg = ""
    /\ submetido = Nenhuma
    /\ criados = <<>>

\* The end of a run whose handler saved t and called st.rerun(): the script
\* runs again from the top on the file just written.
SalvaERecarrega(t) ==
    /\ arquivo' = salvar_dados(t)
    /\ df' = Carga(arquivo', hoje)
    /\ total_a_pagar' = TotalAPagar(df')

\* The end of a run whose handler changed nothing.
SoExibe(h) ==
    /\ arquivo' = ArquivoAposCarregar(arquivo)
    /\ df' = Carga(arquivo, h)
    /\ total_a_pagar' = TotalAPagar(df')

\* The page is opened or refreshed, the same day or the next: no handler.
Recarregar(h) ==
    /\ h \in {hoje, hoje + 1} \cap Dias
    /\ hoje' = h
    /\ SoExibe(h)
    /\ msg' = ""
    /\ submetido' = Nenhuma
    /\ UNCHANGED criados

(* CONTAS PENDENTES: the data editor over the pending rows. *)
Editaveis == {"fornecedor", "valor", "vencimento", "status"}

\* What a cell of the editor can be set to (a cleared cell is missing).
ValoresDe(c) ==
    CASE c = "fornecedor" -> {NaN, " ", "Acme", "NA"}
      [] c = "valor" -> Valores
      [] c = "vencimento" -> {NaT} \cup {Ts(d) : d \in Datas}
      [] c = "status" -> {"Pendente", "Paga"}

Faltante(c, v) ==
    IF c = "vencimento" THEN IsNaData(v)
    ELSE IF c \in ColunasTexto THEN v = NaN
    ELSE FALSE

\* df.update(pendentes_editado) for an editor that differs from pendentes in
\* the cell (i, c), now v: only values that are not missing overwrite df.
Update(t, i, c, v) ==
    IF Faltante(c, v) THEN t
    ELSE [t EXCEPT !.linhas[i] = (c :> v) @@ @]

Editar(i, c, v) ==
    LET t == df
    IN  /\ i \in DOMAIN t.linhas
        /\ t.linhas[i].status = "Pendente"
        /\ c \in Editaveis
        /\ v \in ValoresDe(c)
        /\ v # t.linhas[i][c]            \* not pendentes_editado.equals(pendentes)
        /\ SalvaERecarrega(Update(t, i, c, v))
        /\ msg' = "Alteracoes salvas automaticamente!"
        /\ submetido' = Entrada("editor", "", t.linhas[i].id, c)
        /\ UNCHANGED <<hoje, criados>>

(* EXCLUIR *)
SemId(t, conta_excluir) ==
    [t EXCEPT !.linhas =
        SelectRows(t.linhas,
            {i \in DOMAIN t.linhas : t.linhas[i].id # conta_excluir})]

Excluir(conta_excluir) ==
    LET t == df
    IN  /\ conta_excluir \in Ids
        /\ IF conta_excluir \notin IdsDe(t.linhas)
           THEN /\ SoExibe(hoje)
                /\ msg' = "Conta nao encontrada."
           ELSE /\ SalvaERecarrega(SemId(t, conta_excluir))
                /\ msg' = "Conta excluida com sucesso!"
        /\ submetido' = Entrada("Excluir", "", conta_excluir, "")
        /\ UNCHANGED <<hoje, criados>>

(* NOVA CONTA *)
\* Mutant of NovoId: the number of rows plus one.
NovoIdPorTamanho(t) == Len(t.linhas) + 1

\* Mutant of NovoId: a counter of the records ever created, never reused.
NovoIdContador(t) == Len(criados) + 1

\* novo_id = int(df["id"].max() + 1) if not df.empty else 1
NovoId(t) == IF ~Empty(t) THEN MaxDe(IdsDe(t.linhas)) + 1 ELSE 1

\* The value pd.concat gives the new row in a column it does not have.
SemValor(c) == IF c = "dias" THEN None ELSE NaN

\* pd.concat([df, pd.DataFrame([nova_linha])], ignore_index=True)
Concat(t, nova_linha) ==
    [colunas |-> t.colunas,
     linhas |-> Append(t.linhas,
         [c \in Range(t.colunas) |->
             IF c \in DOMAIN nova_linha THEN nova_linha[c] ELSE SemValor(c)])]

Cadastrar(fornecedor, descricao, tipo_documento, valor, vencimento) ==
    LET t == df
        novo_id == NovoId(t)
        nova_linha ==
            [id |-> novo_id, fornecedor |-> fornecedor,
             descricao |-> descricao, tipo_documento |-> tipo_documento,
             valor |-> valor, vencimento |-> Date(vencimento),
             status |-> "Pendente"]
    IN  /\ fornecedor \in Fornecedores
        /\ descricao \in Descricoes
        /\ tipo_documento \in TiposDocumento
        /\ valor \in Valores
        /\ vencimento \in Datas
        /\ IF Strip(fornecedor) = ""
           THEN /\ SoExibe(hoje)
                /\ msg' = "Informe o fornecedor."
                /\ submetido' = Entrada("Cadastrar", fornecedor, 0, "")
                /\ UNCHANGED criados
           ELSE /\ Len(criados) < MaxCriacoes
                /\ Len(t.linhas) < MaxLinhas
                /\ SalvaERecarrega(Concat(t, nova_linha))
                /\ msg' = "Conta cadastrada com sucesso!"
                /\ submetido' = Entrada("Cadastrar", fornecedor, novo_id, "")
                /\ criados' = Append(criados, novo_id)
        /\ UNCHANGED hoje

Next ==
    \/ \E h \in Dias : Recarregar(h)
    \/ \E i \in 1..MaxLinhas, c \in Editaveis :
          \E v \in ValoresDe(c) : Editar(i, c, v)
    \/ \E conta_excluir \in Ids : Excluir(conta_excluir)
    \/ \E fornecedor \in Fornecedores, descricao \in Descricoes,
          tipo_documento \in TiposDocumento, valor \in Valores,
          vencimento \in Datas :
          Cadastrar(fornecedor, descricao, tipo_documento, valor, vencimento)

Spec == Init /\ [][Next]_vars

(* The same page used on one day, every record entered with the same
   amount: what varies is which records are created, with which supplier
   and due date, renamed, marked paid and deleted. *)
NextIds ==
    \/ Recarregar(hoje)
    \/ \E i \in 1..MaxLinhas, c \in {"fornecedor", "status"} :
          \E v \in ValoresDe(c) : Editar(i, c, v)
    \/ \E conta_excluir \in Ids : Excluir(conta_excluir)
    \/ \E fornecedor \in Fornecedores, descricao \in Descricoes,
          tipo_documento \in TiposDocumento, vencimento \in Datas :
          Cadastrar(fornecedor, descricao, tipo_documento, MaxValor,
                    vencimento)

SpecIds == Init /\ [][NextIds]_vars

(* ---------------- the script run on a file found on disk --------------- *)
\* Rows a file may hold when the page is opened on it: any stored status
\* (missing included), any amount, a date, an empty or a malformed date.
LinhasDeArquivo ==
    [id : {0}, fornecedor : {"Acme"}, descricao : {"ref"},
     tipo_documento : TiposDocumento, valor : Valores,
     vencimento : {Vazio, Ruim} \cup {Txt(d) : d \in Datas},
     status : {"Pendente", "Paga", ""}]

Numeradas(linhas) == [i \in DOMAIN linhas |-> [linhas[i] EXCEPT !.id = i]]

ArquivosPossiveis ==
    {[existe |-> TRUE, colunas |-> COLUNAS, linhas |-> Numeradas(l)] :
        l \in UNION {[1..n -> LinhasDeArquivo] : n \in 0..MaxLinhas}}

InitExibir ==
    /\ arquivo \in ArquivosPossiveis
    /\ df = TabelaVazia
    /\ total_a_pagar = 0
    /\ hoje = 0
    /\ msg = ""
    /\ submetido = Nenhuma
    /\ criados = <<>>

NextExibir == \E h \in Dias : Recarregar(h)

SpecExibir == InitExibir /\ [][NextExibir]_vars

(* ------------------- salvar_dados, then carregar_dados ---------------- *)
\* Rows of a table handed to salvar_dados: any supplier (missing and blank
\* included), an empty or a filled description, any kind of date value.
LinhasEmMemoria ==
    [id : {0}, fornecedor : {NaN, "", " ", "Acme", "NA"},
     descricao : {"", "ref"}, tipo_documento : TiposDocumento,
     valor : {MaxValor},
     vencimento : {NaT, Ruim} \cup {Date(d) : d \in Datas}
                  \cup {Ts(d) : d \in Datas},
     status : {"Pendente"}]

TabelasEmMemoria ==
    {[colunas |-> COLUNAS, linhas |-> Numeradas(l)] :
        l \in UNION {[1..n -> LinhasEmMemoria] : n \in 0..MaxLinhas}}

InitSalvarCarregar ==
    /\ arquivo = ArquivoAusente
    /\ df \in TabelasEmMemoria
    /\ total_a_pagar = 0
    /\ hoje = 0
    /\ msg = ""
    /\ submetido = Nenhuma
    /\ criados = <<>>

SalvarCarregar ==
    /\ arquivo' = salvar_dados(df)
    /\ df' = carregar_dados(arquivo')
    /\ submetido' = Entrada("salvar_dados", "", 0, "")
    /\ UNCHANGED <<total_a_pagar, hoje, msg, criados>>

SpecSalvarCarregar == InitSalvarCarregar /\ [][SalvarCarregar]_vars

(* ------------------------------ claims -------------------------------- *)
\* The canonical fields of a stored or loaded row, whatever other columns
\* the table carries.
Canonico(r) == [c \in Range(COLUNAS) |-> r[c]]

Canonicos(linhas) == {Canonico(linhas[i]) : i \in DOMAIN linhas}

SemRepetir(linhas) ==
    \A i, j \in DOMAIN linhas : i # j => linhas[i].id # linhas[j].id

LinhaDe(linhas, id) == CHOOSE r \in Range(linhas) : r.id = id

RECURSIVE SomaEm(_, _)
\* The sum of valor over the rows at the positions S.
SomaEm(linhas, S) ==
    IF S = {} THEN 0
    ELSE LET i == CHOOSE j \in S : TRUE
         IN  linhas[i].valor + SomaEm(linhas, S \ {i})

Cadastrou == submetido.botao = "Cadastrar" /\ submetido.id # 0

\* C1: an id handed to a new record differs from every id handed out
\* before, deleted records included.
C1_IdNuncaReutilizado ==
    \A i, j \in DOMAIN criados : i # j => criados[i] # criados[j]

\* C2: no two records of the table, in memory or in the file, have the
\* same id.
C2_IdsUnicos == SemRepetir(df.linhas) /\ SemRepetir(arquivo.linhas)

\* C2 witness: two records stand after three creations (so one was removed)
\* and the last action was an inline edit.
C2_Witness ==
    /\ submetido.botao = "editor"
    /\ Len(criados) = 3
    /\ Len(arquivo.linhas) = 2
    /\ Len(df.linhas) = 2

C4_StatusAtual ==
    \A r \in Range(df.linhas) :
        /\ r.status_atual = "Paga" <=> r.status = "Paga"
        /\ r.vencimento = NaT => r.dias = None
        /\ r.vencimento # NaT => r.dias = Num(r.vencimento.d - hoje)
        /\ r.status # "Paga" =>
              /\ r.vencimento = NaT => r.status_atual = "Sem data"
              /\ r.vencimento # NaT =>
                    /\ r.status_atual = "Vencida" <=> r.vencimento.d < hoje
                    /\ r.vencimento.d >= hoje => r.status_atual = "A vencer"

\* C4 witness: together in one table, a Paga row that is past due and a
\* Pendente row due exactly today, shown as A vencer.
C4_Witness ==
    /\ \E r \in Range(df.linhas) :
          r.status = "Paga" /\ r.vencimento # NaT /\ r.vencimento.d < hoje
    /\ \E r \in Range(df.linhas) :
          /\ r.status = "Pendente"
          /\ r.vencimento = Ts(hoje)
          /\ r.status_atual = "A vencer"

\* C5: once the file is loaded, the total shown is the sum of valor over
\* the stored rows whose stored status is Pendente, whatever their derived
\* status; it is 0 when there is none.
C5_TotalPendente ==
    Len(df.linhas) = Len(arquivo.linhas) =>
        /\ total_a_pagar =
              SomaEm(arquivo.linhas,
                  {i \in DOMAIN arquivo.linhas :
                      arquivo.linhas[i].status = "Pendente"})
        /\ (\A r \in Range(arquivo.linhas) : r.status # "Pendente")
              => total_a_pagar = 0

\* C5 witness: an overdue Pendente row and a Paga row, both with an
\* amount, and the total is the overdue row's amount.
C5_Witness ==
    /\ Len(df.linhas) = 2
    /\ \E r \in Range(df.linhas) :
          /\ r.status = "Pendente" /\ r.status_atual = "Vencida"
          /\ r.valor > 0
          /\ total_a_pagar = r.valor
    /\ \E r \in Range(df.linhas) : r.status = "Paga" /\ r.valor > 0

\* The table C6 expects back from salvar_dados then carregar_dados: the
\* rows whose supplier is neither missing nor blank, the due date
\* normalised, every other field as it was (an empty description, which
\* is optional, counted as a missing one).
Esperado(t) ==
    IF \A r \in Range(t.linhas) : r.fornecedor \in {NaN, "", " "}
    THEN TabelaVazia
    ELSE [colunas |-> t.colunas,
          linhas |-> SelectRows(
              [i \in DOMAIN t.linhas |->
                  [t.linhas[i] EXCEPT
                      !.vencimento = ToDatetime(@),
                      !.descricao = IF @ = "" THEN NaN ELSE @]],
              {i \in DOMAIN t.linhas :
                  t.linhas[i].fornecedor \notin {NaN, "", " "}})]

\* C6: salvar_dados(T) then carregar_dados() gives the rows of T with a
\* supplier, their other fields preserved, and doing it again changes
\* nothing.
C6_IdaEVolta ==
    [][submetido'.botao = "salvar_dados" =>
          /\ df' = Esperado(df)
          /\ submetido.botao = "salvar_dados" => df' = df]_vars

\* C7: the file holds exactly the seven canonical columns.
C7_SoColunasCanonicas == arquivo.existe => arquivo.colunas = COLUNAS

\* C8: a delete of an id the table does not hold warns, saves nothing and
\* changes nothing; a delete of an id it holds removes the records with
\* that id and leaves every other record as it was.
C8_Excluir ==
    [][submetido'.botao = "Excluir" =>
          IF submetido'.id \notin IdsDe(arquivo.linhas)
          THEN /\ msg' = "Conta nao encontrada."
               /\ arquivo'.linhas = arquivo.linhas
               /\ arquivo.existe => arquivo' = arquivo
               /\ df' = df
          ELSE /\ msg' = "Conta excluida com sucesso!"
               /\ Canonicos(arquivo'.linhas) =
                     {r \in Canonicos(arquivo.linhas) :
                         r.id # submetido'.id}]_vars

\* C9: a creation whose supplier is empty or blank warns and changes
\* nothing: no id is handed out, no record is added, nothing is saved.
C9_FornecedorEmBranco ==
    [][(submetido'.botao = "Cadastrar"
            /\ submetido'.fornecedor \in {"", " "}) =>
          /\ msg' = "Informe o fornecedor."
          /\ submetido'.id = 0
          /\ criados' = criados
          /\ arquivo'.linhas = arquivo.linhas
          /\ arquivo.existe => arquivo' = arquivo
          /\ df' = df]_vars

\* C9 witness: the warning is shown for a supplier of blanks while the
\* table holds a record.
C9_Witness ==
    /\ msg = "Informe o fornecedor."
    /\ submetido.fornecedor = " "
    /\ Len(arquivo.linhas) > 0

\* C10: an inline edit that turns a Pendente record into Paga is saved;
\* after the reload the record is shown as Paga, is out of the total and of
\* the pending view, and every other stored record is as it was.
C10_MarcarPaga ==
    [][(submetido'.botao = "editor" /\ submetido'.coluna = "status") =>
          LET id == submetido'.id
              antes == LinhaDe(df.linhas, id)
          IN  /\ id \in IdsDe(df'.linhas)
              /\ LinhaDe(df'.linhas, id).status_atual = "Paga"
              /\ LinhaDe(df'.linhas, id).status = "Paga"
              /\ total_a_pagar' = total_a_pagar - antes.valor
              /\ {r \in Canonicos(arquivo'.linhas) : r.id # id} =
                    {r \in Canonicos(arquivo.linhas) : r.id # id}]_vars

\* The table of a run is the file, loaded and derived on that run's day.
DfCarregado == df = Carga(arquivo, hoje)

=============================================================================
